---- MODULE Spec2Model ----
(***************************************************************************)
(* A model of the queequeg benchmark harness (.plano.py): the commands     *)
(* check, clean, build, stat, flamegraph and record, the trial             *)
(* orchestration of run_outer, and the report step print_transfers.        *)
(* External processes (the workload, pidstat, perf, gcc) and the file      *)
(* system are the environment; every call that can raise is an input.      *)
(***************************************************************************)
EXTENDS Integers, Sequences, FiniteSets, TLC

VARIABLES
    cmd,        \* the command being run ("none" before the first)
    pc,         \* the position of the orchestrator inside the command
    ncmds,      \* number of commands invoked so far
    trial,      \* number of run_outer invocations so far (id of the current one)
    procs,      \* run_outer's list of workload handles (indices into ptab)
    ptab,       \* the workload processes: kind, trial, state, ino
    fs,         \* directory: inode of transfers.csv and transfers.csv.old (0 = absent)
    content,    \* per inode, the lines of the file, each tagged by the writing trial
    sampler,    \* the pidstat process of this trial
    perf,       \* the perf process of this trial
    i,          \* number of handles the teardown loop has gone through
    exc,        \* the exception in flight inside run_outer ("none" if none)
    measured,   \* the outcome of the measurement action inner
    outcome,    \* how control left run_outer ("none" while it has not)
    result,     \* the outcome of the command ("none" while it runs)
    log,        \* the calls issued by the command, in order
    duration,   \* the command's argument duration, in seconds
    warmup,     \* the command's argument warmup, in seconds
    count,      \* print_transfers: the number of lines counted in transfers.csv
    rate,       \* print_transfers: the messages per second it prints
    procpids,   \* the pid of each handle of procs
    pids,       \* run_outer's string pids
    perf_arg    \* the value of the --pid option on perf's command line

vars == <<cmd, pc, ncmds, trial, procs, ptab, fs, content, sampler, perf, i,
          exc, measured, outcome, result, log,
          duration, warmup, count, rate, procpids, pids, perf_arg>>

MaxCommands == 2
MaxLines == 2
MaxDuration == 2
MaxWarmup == 1

Commands == {"check", "clean", "build", "stat", "flamegraph", "record"}

Capabilities == [gcc : BOOLEAN, perf : BOOLEAN, pidstat : BOOLEAN, paranoid : BOOLEAN]

\* standard_args: duration and warmup, in whole seconds; the smallest
\* value and the largest one within the bound
Durations == {1, MaxDuration}
Warmups == {0, MaxWarmup}

\* the commands that take standard_args and run a trial
TrialCommands == {"stat", "flamegraph", "record"}

\* the process ids the system hands out
Pids == {7, 12}

Event(op, arg, ok) == [op |-> op, arg |-> arg, ok |-> ok]

\* the position of step s in a sequence of distinct steps (0 if absent)
IndexOf(seq, s) == IF \E k \in 1..Len(seq) : seq[k] = s
                   THEN CHOOSE k \in 1..Len(seq) : seq[k] = s
                   ELSE 0

\* the step following s, or end when s is the last one
Following(seq, s, end) == IF IndexOf(seq, s) < Len(seq) THEN seq[IndexOf(seq, s) + 1] ELSE end

-----------------------------------------------------------------------------
(* check, clean, build *)

\* check(): the first requirement that is not met, in the order tested
check_failure(c) ==
    IF ~c.gcc THEN "gcc"
    ELSE IF ~c.perf THEN "perf"
    ELSE IF ~c.pidstat THEN "pidstat"
    ELSE IF ~c.paranoid THEN "perf_event_paranoid"
    ELSE "none"

build_order_gcc_first == <<"gcc", "check">>

\* build(): check() and then the compiler
build_order == <<"check", "gcc">>

\* the first step of each command
command_entry(c) ==
    CASE c = "flamegraph" -> "check_d3"
      [] c = "clean" -> "clean"
      [] c = "check" -> "check"
      [] OTHER -> build_order[1]

\* stat, flamegraph and record call run_outer after build()
after_build(c) == IF c = "build" THEN "idle" ELSE "rotate"

Init ==
    /\ cmd = "none"
    /\ pc = "idle"
    /\ ncmds = 0
    /\ trial = 0
    /\ procs = <<>>
    /\ ptab = <<>>
    /\ fs = [csv |-> 0, old |-> 0]
    /\ content = <<>>
    /\ sampler = "none"
    /\ perf = "none"
    /\ i = 0
    /\ exc = "none"
    /\ measured = "none"
    /\ outcome = "none"
    /\ result = "none"
    /\ log = <<>>
    /\ duration = 0
    /\ warmup = 0
    /\ count = 0
    /\ rate = 0
    /\ procpids = <<>>
    /\ pids = <<>>
    /\ perf_arg = <<>>

\* of the processes of earlier commands, only the receivers that have not
\* exited can still act on the files
StillWriting(r) == r.kind = "receiver" /\ r.state # "exited"

\* the command line invokes one command
invoke(c) ==
    /\ pc = "idle"
    /\ ncmds < MaxCommands
    /\ cmd' = c
    /\ ncmds' = ncmds + 1
    /\ pc' = command_entry(c)
    /\ procs' = <<>>
    /\ sampler' = "none"
    /\ perf' = "none"
    /\ i' = 0
    /\ exc' = "none"
    /\ measured' = "none"
    /\ outcome' = "none"
    /\ result' = "none"
    /\ log' = <<>>
    /\ \E d \in Durations, w \in Warmups :
         /\ duration' = IF c \in TrialCommands THEN d ELSE 0
         /\ warmup' = IF c \in TrialCommands THEN w ELSE 0
    /\ count' = 0
    /\ rate' = 0
    /\ procpids' = <<>>
    /\ pids' = <<>>
    /\ perf_arg' = <<>>
    /\ ptab' = SelectSeq(ptab, StillWriting)
    /\ UNCHANGED <<trial, fs, content>>

\* the command ends with result r
Finish(r) == pc' = "idle" /\ result' = r

\* a step of build() or check() completed; n is the next step of build()
Proceed(n) ==
    IF cmd = "check" \/ (n = "built" /\ cmd = "build")
    THEN Finish("ok")
    ELSE /\ pc' = IF n = "built" THEN after_build(cmd) ELSE n
         /\ result' = result

\* flamegraph: check_exists("/usr/share/d3-flame-graph"), fail() if absent
flamegraph_check_exists ==
    /\ pc = "check_d3"
    /\ \E present \in BOOLEAN :
         IF present
         THEN pc' = build_order[1] /\ result' = result
         ELSE Finish("PreconditionError")
    /\ UNCHANGED <<cmd, ncmds, trial, procs, ptab, fs, content, sampler, perf, i,
                   exc, measured, outcome, log>>
    /\ UNCHANGED <<duration, warmup, count, rate, procpids, pids, perf_arg>>

\* check(): the three programs and perf_event_paranoid
check ==
    /\ pc = "check"
    /\ \E c \in Capabilities :
         IF check_failure(c) = "none"
         THEN Proceed(Following(build_order, "check", "built"))
         ELSE Finish("PreconditionError")
    /\ UNCHANGED <<cmd, ncmds, trial, procs, ptab, fs, content, sampler, perf, i,
                   exc, measured, outcome, log>>
    /\ UNCHANGED <<duration, warmup, count, rate, procpids, pids, perf_arg>>

\* build(): run("gcc queequeg.c ...")
build ==
    /\ pc = "gcc"
    /\ \E ok \in BOOLEAN :
         /\ log' = Append(log, Event("run", "gcc", ok))
         /\ IF ok
            THEN Proceed(Following(build_order, "gcc", "built"))
            ELSE Finish("BuildError")
    /\ UNCHANGED <<cmd, ncmds, trial, procs, ptab, fs, content, sampler, perf, i,
                   exc, measured, outcome>>
    /\ UNCHANGED <<duration, warmup, count, rate, procpids, pids, perf_arg>>

\* clean(): remove the output files
clean ==
    /\ pc = "clean"
    /\ fs' = [csv |-> 0, old |-> 0]
    /\ Finish("ok")
    /\ UNCHANGED <<cmd, ncmds, trial, procs, ptab, content, sampler, perf, i,
                   exc, measured, outcome, log>>
    /\ UNCHANGED <<duration, warmup, count, rate, procpids, pids, perf_arg>>

-----------------------------------------------------------------------------
(* strings: a string is the sequence of its characters *)

DigitChars == <<"0", "1", "2", "3", "4", "5", "6", "7", "8", "9">>

RECURSIVE str(_)
\* str(n) for n >= 0: the decimal digits of n
str(n) == IF n < 10 THEN <<DigitChars[n + 1]>>
          ELSE str(n \div 10) \o <<DigitChars[(n % 10) + 1]>>

RECURSIVE join(_, _)
\* sep.join(items) for a sequence of strings
join(sep, items) ==
    IF items = <<>> THEN <<>>
    ELSE IF Len(items) = 1 THEN items[1]
    ELSE items[1] \o sep \o join(sep, Tail(items))

\* iterating over a string yields its characters, each a string
chars(s) == [k \in 1..Len(s) |-> <<s[k]>>]

-----------------------------------------------------------------------------
(* run_outer *)

pid_option_as_given(c, p) == p

\* the --pid option built by inner: stat joins pids again, flamegraph and
\* record pass it on
pid_option(c, p) == IF c = "stat" THEN join(<<",">>, chars(p)) ELSE p

run_outer_order_send_first ==
    <<"rotate", "start_send", "start_receive", "start_pidstat", "sleep",
      "inner_start", "inner_wait", "with_exit", "teardown">>

run_outer_order_stop_first ==
    <<"rotate", "start_receive", "start_send", "start_pidstat", "sleep",
      "with_exit", "inner_start", "inner_wait", "teardown">>

run_outer_order_inner_first ==
    <<"rotate", "start_receive", "start_send", "start_pidstat",
      "inner_start", "inner_wait", "sleep", "with_exit", "teardown">>

\* the statements of run_outer in program order; inner is the start of the
\* perf process and the wait for its exit (run), with_exit is the end of
\* the with block, teardown the loop of the finally clause
run_outer_order ==
    <<"rotate", "start_receive", "start_send", "start_pidstat", "sleep",
      "inner_start", "inner_wait", "with_exit", "teardown">>

run_outer_handler_no_finally(p) ==
    CASE p \in {"rotate", "start_receive", "start_send"} -> "leave"
      [] p = "start_pidstat" -> "teardown"
      [] p = "sleep" -> "with_exit"
      [] p \in {"inner_start", "inner_wait"} -> "leave"
      [] p = "with_exit" -> "teardown"
      [] OTHER -> "leave"

run_outer_handler_no_with(p) ==
    CASE p \in {"rotate", "start_receive", "start_send"} -> "leave"
      [] p \in {"start_pidstat", "sleep", "inner_start", "inner_wait"} -> "teardown"
      [] p = "with_exit" -> "teardown"
      [] OTHER -> "leave"

\* where control goes when statement p raises: out of run_outer for the
\* statements before the try and for the finally clause itself, to the
\* finally clause from the with expression, to the exit of the with block
\* from its body
run_outer_handler(p) ==
    CASE p \in {"rotate", "start_receive", "start_send"} -> "leave"
      [] p = "start_pidstat" -> "teardown"
      [] p \in {"sleep", "inner_start", "inner_wait"} -> "with_exit"
      [] p = "with_exit" -> "teardown"
      [] OTHER -> "leave"

\* control after statement p ended with e ("none": normally) while
\* exception x was in flight: an exception raised while another is in
\* flight replaces it
Control(p, e, x) ==
    LET to == IF e = "none" THEN Following(run_outer_order, p, "leave")
              ELSE run_outer_handler(p)
        y == IF e = "none" THEN x ELSE e
    IN  IF to = "leave"
        THEN [pc |-> "report", exc |-> y,
              outcome |-> IF y = "none" THEN "returned" ELSE y]
        ELSE [pc |-> to, exc |-> y, outcome |-> "none"]

Goto(c) == pc' = c.pc /\ exc' = c.exc /\ outcome' = c.outcome

rotate_nothing(f) == f

\* if exists("transfers.csv"): move("transfers.csv", "transfers.csv.old")
rotate(f) == IF f.csv # 0 THEN [csv |-> 0, old |-> f.csv] ELSE f

\* start(..., stdout="transfers.csv") opens the file for writing: an
\* existing file is truncated, a missing one is created
open_w(f, cont) ==
    IF f.csv # 0
    THEN [fs |-> f, content |-> [cont EXCEPT ![f.csv] = <<>>]]
    ELSE [fs |-> [f EXCEPT !.csv = Len(cont) + 1], content |-> Append(cont, <<>>)]

Process(kind, ino) == [kind |-> kind, trial |-> trial, state |-> "running", ino |-> ino]

\* procs = list(); rotation of the previous transfer log
run_outer_rotate ==
    /\ pc = "rotate"
    /\ trial' = trial + 1
    /\ procs' = <<>>
    /\ \E ok \in BOOLEAN :
         IF fs.csv = 0
         THEN /\ ok
              /\ Goto(Control("rotate", "none", exc))
              /\ UNCHANGED <<fs, log>>
         ELSE /\ log' = Append(log, Event("move", "transfers.csv", ok))
              /\ IF ok
                 THEN fs' = rotate(fs) /\ Goto(Control("rotate", "none", exc))
                 ELSE fs' = fs /\ Goto(Control("rotate", "MoveError", exc))
    /\ UNCHANGED <<cmd, ncmds, ptab, content, sampler, perf, i, measured, result>>
    /\ UNCHANGED <<duration, warmup, count, rate, procpids, pids, perf_arg>>

\* procs.append(start("./queequeg receive", stdout="transfers.csv"))
run_outer_start_receive ==
    /\ pc = "start_receive"
    /\ \E ok \in BOOLEAN, opened \in BOOLEAN, pid \in Pids :
         LET o == open_w(fs, content) IN
         /\ log' = Append(log, Event("start", "receiver", ok))
         /\ procpids' = IF ok THEN Append(procpids, pid) ELSE procpids
         /\ \A k \in 1..Len(procpids) : procpids[k] # pid
         /\ IF ok
            THEN /\ opened
                 /\ fs' = o.fs
                 /\ content' = o.content
                 /\ ptab' = Append(ptab, Process("receiver", o.fs.csv))
                 /\ procs' = Append(procs, Len(ptab) + 1)
                 /\ Goto(Control("start_receive", "none", exc))
            ELSE /\ fs' = IF opened THEN o.fs ELSE fs
                 /\ content' = IF opened THEN o.content ELSE content
                 /\ UNCHANGED <<ptab, procs>>
                 /\ Goto(Control("start_receive", "SpawnError", exc))
    /\ UNCHANGED <<cmd, ncmds, trial, sampler, perf, i, measured, result>>
    /\ UNCHANGED <<duration, warmup, count, rate, pids, perf_arg>>

\* procs.append(start("./queequeg send"))
run_outer_start_send ==
    /\ pc = "start_send"
    /\ \E ok \in BOOLEAN, pid \in Pids :
         /\ log' = Append(log, Event("start", "sender", ok))
         /\ procpids' = IF ok THEN Append(procpids, pid) ELSE procpids
         /\ \A k \in 1..Len(procpids) : procpids[k] # pid
         /\ IF ok
            THEN /\ ptab' = Append(ptab, Process("sender", 0))
                 /\ procs' = Append(procs, Len(ptab) + 1)
                 /\ Goto(Control("start_send", "none", exc))
            ELSE /\ UNCHANGED <<ptab, procs>>
                 /\ Goto(Control("start_send", "SpawnError", exc))
    /\ UNCHANGED <<cmd, ncmds, trial, fs, content, sampler, perf, i, measured, result>>
    /\ UNCHANGED <<duration, warmup, count, rate, pids, perf_arg>>

\* with start(f"pidstat 2 --human -p {pids}"):
run_outer_start_pidstat ==
    /\ pc = "start_pidstat"
    /\ \E ok \in BOOLEAN :
         /\ log' = Append(log, Event("start", "pidstat", ok))
         /\ pids' = join(<<",">>, [k \in 1..Len(procs) |-> str(procpids[k])])
         /\ IF ok
            THEN sampler' = "running" /\ Goto(Control("start_pidstat", "none", exc))
            ELSE sampler' = sampler /\ Goto(Control("start_pidstat", "SpawnError", exc))
    /\ UNCHANGED <<cmd, ncmds, trial, procs, ptab, fs, content, perf, i, measured, result>>
    /\ UNCHANGED <<duration, warmup, count, rate, procpids, perf_arg>>

\* sleep(warmup)
run_outer_sleep ==
    /\ pc = "sleep"
    /\ \E ok \in BOOLEAN :
         /\ log' = Append(log, Event("sleep", "warmup", ok))
         /\ Goto(Control("sleep", IF ok THEN "none" ELSE "SleepError", exc))
    /\ UNCHANGED <<cmd, ncmds, trial, procs, ptab, fs, content, sampler, perf, i,
                   measured, result>>
    /\ UNCHANGED <<duration, warmup, count, rate, procpids, pids, perf_arg>>

\* inner(pids): run("perf ... --pid ... sleep {duration}") starts perf
inner_start ==
    /\ pc = "inner_start"
    /\ \E ok \in BOOLEAN :
         /\ log' = Append(log, Event("start", "perf", ok))
         /\ perf_arg' = pid_option(cmd, pids)
         /\ IF ok
            THEN /\ perf' = "running"
                 /\ measured' = measured
                 /\ Goto(Control("inner_start", "none", exc))
            ELSE /\ perf' = perf
                 /\ measured' = "MeasureError"
                 /\ Goto(Control("inner_start", "MeasureError", exc))
    /\ UNCHANGED <<cmd, ncmds, trial, procs, ptab, fs, content, sampler, i, result>>
    /\ UNCHANGED <<duration, warmup, count, rate, procpids, pids>>

inner_wait_returns_at_once ==
    /\ pc = "inner_wait"
    /\ perf = "running"
    /\ log' = Append(log, Event("wait", "perf", TRUE))
    /\ perf' = perf
    /\ measured' = "ok"
    /\ Goto(Control("inner_wait", "none", exc))
    /\ UNCHANGED <<cmd, ncmds, trial, procs, ptab, fs, content, sampler, i, result>>
    /\ UNCHANGED <<duration, warmup, count, rate, procpids, pids, perf_arg>>

\* inner(pids): run waits for perf to exit and raises on a nonzero exit code
inner_wait ==
    /\ pc = "inner_wait"
    /\ perf = "running"
    /\ \E ok \in BOOLEAN :
         /\ log' = Append(log, Event("wait", "perf", ok))
         /\ perf' = "exited"
         /\ measured' = IF ok THEN "ok" ELSE "MeasureError"
         /\ Goto(Control("inner_wait", IF ok THEN "none" ELSE "MeasureError", exc))
    /\ UNCHANGED <<cmd, ncmds, trial, procs, ptab, fs, content, sampler, i, result>>
    /\ UNCHANGED <<duration, warmup, count, rate, procpids, pids, perf_arg>>

\* the end of the with block stops the pidstat process
run_outer_with_exit ==
    /\ pc = "with_exit"
    /\ \E ok \in BOOLEAN :
         /\ log' = Append(log, Event("stop", "pidstat", ok))
         /\ sampler' = IF ok THEN "stopped" ELSE sampler
         /\ Goto(Control("with_exit", IF ok THEN "none" ELSE "StopError", exc))
    /\ UNCHANGED <<cmd, ncmds, trial, procs, ptab, fs, content, perf, i, measured, result>>
    /\ UNCHANGED <<duration, warmup, count, rate, procpids, pids, perf_arg>>

\* finally: for proc in procs: kill(proc)
run_outer_kill ==
    /\ pc = "teardown"
    /\ i < Len(procs)
    /\ \E ok \in BOOLEAN :
         LET p == procs[i + 1] IN
         /\ log' = Append(log, Event("kill", ptab[p].kind, ok))
         /\ IF ok
            THEN /\ i' = i + 1
                 /\ ptab' = [ptab EXCEPT ![p].state =
                               IF @ = "running" THEN "signaled" ELSE @]
                 /\ UNCHANGED <<pc, exc, outcome>>
            ELSE /\ UNCHANGED <<i, ptab>>
                 /\ Goto(Control("teardown", "KillError", exc))
    /\ UNCHANGED <<cmd, ncmds, trial, procs, fs, content, sampler, perf, measured, result>>
    /\ UNCHANGED <<duration, warmup, count, rate, procpids, pids, perf_arg>>

\* the loop is over: control leaves run_outer, re-raising what was in flight
run_outer_leave ==
    /\ pc = "teardown"
    /\ i = Len(procs)
    /\ Goto(Control("teardown", "none", exc))
    /\ UNCHANGED <<cmd, ncmds, trial, procs, ptab, fs, content, sampler, perf, i,
                   measured, result, log>>
    /\ UNCHANGED <<duration, warmup, count, rate, procpids, pids, perf_arg>>

-----------------------------------------------------------------------------
(* the report *)

elapsed_duration_only(d, w) == d

\* the argument the commands pass to print_transfers
elapsed(d, w) == d + w

\* count // duration inside print_transfers
messages_per_second(n, t) == n \div t

print_transfers_keeps_error ==
    /\ pc = "report"
    /\ LET ok == fs.csv # 0 IN
         /\ log' = Append(log, Event("report", "transfers.csv", ok))
         /\ count' = IF ok THEN Len(content[fs.csv]) ELSE count
         /\ rate' = IF ok THEN messages_per_second(Len(content[fs.csv]),
                                                  elapsed(duration, warmup))
                    ELSE rate
         /\ IF outcome # "returned" THEN Finish(outcome)
            ELSE IF ~ok THEN Finish("ReportError")
            ELSE pc' = "print_output" /\ result' = result
    /\ UNCHANGED <<cmd, ncmds, trial, procs, ptab, fs, content, sampler, perf, i,
                   exc, measured, outcome>>
    /\ UNCHANGED <<duration, warmup, procpids, pids, perf_arg>>

\* finally: print_transfers(duration + warmup), which counts the lines of
\* transfers.csv with wc and raises if wc fails
print_transfers ==
    /\ pc = "report"
    /\ LET ok == fs.csv # 0 IN
         /\ log' = Append(log, Event("report", "transfers.csv", ok))
         /\ count' = IF ok THEN Len(content[fs.csv]) ELSE count
         /\ rate' = IF ok THEN messages_per_second(Len(content[fs.csv]),
                                                  elapsed(duration, warmup))
                    ELSE rate
         /\ IF ~ok THEN Finish("ReportError")
            ELSE IF outcome # "returned" THEN Finish(outcome)
            ELSE pc' = "print_output" /\ result' = result
    /\ UNCHANGED <<cmd, ncmds, trial, procs, ptab, fs, content, sampler, perf, i,
                   exc, measured, outcome>>
    /\ UNCHANGED <<duration, warmup, procpids, pids, perf_arg>>

\* print(read(output))
print_output ==
    /\ pc = "print_output"
    /\ log' = Append(log, Event("print", "output", TRUE))
    /\ Finish("ok")
    /\ UNCHANGED <<cmd, ncmds, trial, procs, ptab, fs, content, sampler, perf, i,
                   exc, measured, outcome>>
    /\ UNCHANGED <<duration, warmup, count, rate, procpids, pids, perf_arg>>

-----------------------------------------------------------------------------
(* the environment: the workload processes *)

RECURSIVE lines(_)
\* the number of lines in the files of c
lines(c) == IF c = <<>> THEN 0 ELSE Len(Head(c)) + lines(Tail(c))

\* a receiver writes one line per transfer to its standard output
receive_write(p) ==
    /\ ptab[p].kind = "receiver"
    /\ ptab[p].state \in {"running", "signaled"}
    /\ lines(content) < MaxLines
    /\ content' = [content EXCEPT ![ptab[p].ino] = Append(@, ptab[p].trial)]
    /\ UNCHANGED <<cmd, pc, ncmds, trial, procs, ptab, fs, sampler, perf, i,
                   exc, measured, outcome, result, log>>
    /\ UNCHANGED <<duration, warmup, count, rate, procpids, pids, perf_arg>>

\* a process that was sent the termination signal exits
process_exit(p) ==
    /\ ptab[p].state = "signaled"
    /\ ptab' = [ptab EXCEPT ![p].state = "exited"]
    /\ UNCHANGED <<cmd, pc, ncmds, trial, procs, fs, content, sampler, perf, i,
                   exc, measured, outcome, result, log>>
    /\ UNCHANGED <<duration, warmup, count, rate, procpids, pids, perf_arg>>

Next ==
    \/ \E c \in Commands : invoke(c)
    \/ flamegraph_check_exists
    \/ check
    \/ build
    \/ clean
    \/ run_outer_rotate
    \/ run_outer_start_receive
    \/ run_outer_start_send
    \/ run_outer_start_pidstat
    \/ run_outer_sleep
    \/ inner_start
    \/ inner_wait
    \/ run_outer_with_exit
    \/ run_outer_kill
    \/ run_outer_leave
    \/ print_transfers
    \/ print_output
    \/ \E p \in 1..Len(ptab) : receive_write(p)
    \/ \E p \in 1..Len(ptab) : process_exit(p)

Spec == Init /\ [][Next]_vars

-----------------------------------------------------------------------------
(* what the properties speak about *)

\* control has left run_outer, by return or by raising
Left == outcome # "none"

\* the positions of the log holding a call of op on arg
Calls(op, arg) == {k \in 1..Len(log) : log[k].op = op /\ log[k].arg = arg}

\* the kill calls issued by the teardown loop, failed ones included
KillCalls == {k \in 1..Len(log) : log[k].op = "kill"}

FailedKills == {k \in KillCalls : ~log[k].ok}

\* the calls of op on arg that succeeded
Done(op, arg) == {k \in Calls(op, arg) : log[k].ok}

\* some call in A was issued before position k of the log
Before(A, k) == \E j \in A : j < k

\* the measurement action was invoked
MeasuringEntered == Calls("start", "perf") # {}

\* C1: when control leaves run_outer, the number of kill calls issued
\* equals the number of workload handles that were started in the trial
C1_TeardownCompleteness == Left => Cardinality(KillCalls) = Len(procs)

\* C2: control leaves run_outer from the Measuring phase only after the
\* teardown loop has run, and run_outer propagates the failure of the
\* measurement action only after a kill was issued on every member
C2_NoBypass ==
    /\ (Left /\ MeasuringEntered) =>
          /\ KillCalls # {}
          /\ (FailedKills = {} => Cardinality(KillCalls) = Len(procs))
    /\ (Left /\ outcome = "MeasureError") =>
          /\ Cardinality(KillCalls) = Len(procs)
          /\ \A k \in 1..Len(procs) : ptab[procs[k]].state # "running"

C2_Witness ==
    /\ outcome = "MeasureError"
    /\ Len(procs) = 2
    /\ Cardinality(KillCalls) = 2

\* C3: when run_outer has raised a spawn error, no workload process it
\* started is still running without having been sent a termination signal
C3_NoOrphan ==
    (Left /\ outcome = "SpawnError") =>
        \A k \in 1..Len(procs) : ptab[procs[k]].state # "running"

C5_TeardownTotal ==
    (Left /\ KillCalls # {}) => Cardinality(KillCalls) = Len(procs)

\* C6: when a kill of the teardown loop fails, the outcome of run_outer
\* is still the outcome of the measurement action
C6_OutcomeNotMasked ==
    (Left /\ measured # "none" /\ FailedKills # {}) =>
        outcome = (IF measured = "ok" THEN "returned" ELSE measured)

\* C7: the start of the sender is issued only after the start of the
\* receiver was issued, and never in a trial without a receiver
C7_ReceiverBeforeSender ==
    \A k \in Calls("start", "sender") : Before(Done("start", "receiver"), k)

C7_Witness ==
    /\ Done("start", "sender") # {}
    /\ Len(procs) = 2
    /\ ptab[procs[1]].kind = "receiver"
    /\ ptab[procs[2]].kind = "sender"

\* the lines of file ino were all written by the receivers of one trial
OneTrial(ino) == \A a, b \in 1..Len(content[ino]) : content[ino][a] = content[ino][b]

\* C8: no transfers.csv exists when the receiver is about to be started,
\* the log of the new receiver holds only lines of its own trial, and
\* transfers.csv never holds lines of two trials
C8_LogRotation ==
    /\ pc = "start_receive" => fs.csv = 0
    /\ \A p \in 1..Len(ptab) :
          (ptab[p].kind = "receiver" /\ ptab[p].ino = fs.csv) =>
              \A a \in 1..Len(content[fs.csv]) : content[fs.csv][a] = ptab[p].trial
    /\ fs.csv # 0 => OneTrial(fs.csv)

C8_Witness ==
    /\ fs.csv # 0 /\ fs.old # 0
    /\ content[fs.csv] # <<>>
    /\ content[fs.old] # <<>>
    /\ content[fs.old][1] < content[fs.csv][1]
    /\ \E p \in 1..Len(ptab) :
          /\ ptab[p].kind = "receiver"
          /\ ptab[p].ino = fs.old
          /\ ptab[p].state # "exited"

\* C9: the report step reads transfers.csv only when the receiver of the
\* trial is no longer running
C9_ReportAfterTeardown ==
    pc = "report" =>
        \A p \in 1..Len(ptab) :
            (ptab[p].kind = "receiver" /\ ptab[p].trial = trial) =>
                ptab[p].state # "running"

\* C10: a command that aborts on a failed requirement has spawned no
\* process, and no process is spawned before the requirements were checked
C10_NoSpawnBeforeCheck ==
    /\ result = "PreconditionError" => log = <<>>
    /\ pc \in {"check_d3", "check"} => log = <<>>

C10_Witness ==
    /\ result = "PreconditionError"
    /\ cmd \in {"build", "stat", "flamegraph", "record"}

\* the report step counted the lines of transfers.csv
Reported == Done("report", "transfers.csv") # {}

\* C11: the reported rate r is the floor of N / T, where N is the number
\* of lines counted and T is warmup + duration: r*T <= N < (r+1)*T
C11_RateIsFloor ==
    Reported =>
        LET T == duration + warmup IN
        /\ T > 0
        /\ rate * T <= count
        /\ count < (rate + 1) * T
        /\ count <= Len(content[fs.csv])

C11_Witness == Reported /\ warmup > 0 /\ rate > 0 /\ cmd \in TrialCommands

\* the pidstat process was started
SamplerStarted == Done("start", "pidstat") # {}

RECURSIVE split(_, _)
\* the fields of s between the occurrences of the character sep
split(s, sep) ==
    IF \A k \in 1..Len(s) : s[k] # sep THEN <<s>>
    ELSE LET k == CHOOSE x \in 1..Len(s) :
                     s[x] = sep /\ \A y \in 1..(x - 1) : s[y] # sep
         IN <<SubSeq(s, 1, k - 1)>> \o split(SubSeq(s, k + 1, Len(s)), sep)

RECURSIVE atoi(_)
\* the number a field of digits denotes (0 for the empty field)
atoi(t) == IF t = <<>> THEN 0
           ELSE 10 * atoi(SubSeq(t, 1, Len(t) - 1)) + (IndexOf(DigitChars, t[Len(t)]) - 1)

\* the set of process ids a comma separated list denotes
PidSet(s) == {atoi(split(s, ",")[k]) : k \in 1..Len(split(s, ","))}

\* C13: the pid list handed to perf denotes exactly the pids of the
\* receiver and the sender, the same set that is handed to pidstat
C13_MonitorPids ==
    Calls("start", "perf") # {} =>
        /\ PidSet(perf_arg) = {procpids[k] : k \in 1..Len(procpids)}
        /\ PidSet(perf_arg) = PidSet(pids)

\* C14: while perf is running, pidstat was started and not yet stopped;
\* the stop of pidstat is not issued while inner has not ended
C14_SamplerCoversPerf ==
    /\ perf = "running" => sampler = "running"
    /\ pc \in {"inner_start", "inner_wait"} =>
          (sampler = "running" /\ Calls("stop", "pidstat") = {})

C14_Witness ==
    /\ pc = "inner_wait"
    /\ perf = "running"
    /\ sampler = "running"
    /\ Done("sleep", "warmup") # {}

\* C15: when control has left run_outer, every workload process the trial
\* started has been sent a termination signal
C15_AllSignaledAtExit ==
    \A k \in 1..Len(procs) : Left => ptab[procs[k]].state \in {"signaled", "exited"}

C17_ReportOnce ==
    /\ ~Left => Calls("report", "transfers.csv") = {}
    /\ (Left /\ pc # "report") => Cardinality(Calls("report", "transfers.csv")) = 1
    /\ Calls("print", "output") # {} => (outcome = "returned" /\ Reported)
    /\ (result # "none" /\ Left /\ ~Reported) => result = "ReportError"
    /\ (result # "none" /\ Left /\ Reported /\ outcome # "returned") => result = outcome

C17_Witness ==
    /\ result = "ReportError"
    /\ outcome \notin {"none", "returned"}
    /\ Cardinality(Calls("report", "transfers.csv")) = 1

-----------------------------------------------------------------------------
(* termination of a trial *)

\* the steps of the orchestrator, as opposed to those of the workload
Program ==
    \/ flamegraph_check_exists \/ check \/ build \/ clean
    \/ run_outer_rotate \/ run_outer_start_receive \/ run_outer_start_send
    \/ run_outer_start_pidstat \/ run_outer_sleep \/ inner_start \/ inner_wait
    \/ run_outer_with_exit \/ run_outer_kill \/ run_outer_leave
    \/ print_transfers \/ print_output

\* the warmup sleep ends and perf exits: no step of the orchestrator
\* waits forever
FairSpec == Spec /\ WF_vars(Program)

\* every invocation of run_outer eventually returns or raises
TrialLeaves == (pc = "rotate") ~> Left

====
